---------------------------- MODULE Spec2Model ----------------------------
(***************************************************************************)
(* The jobs Manager of plandex-cli-api (app/cli-api/jobs/manager.go): the  *)
(* job table, the concurrency semaphore, the cancellation registry, the    *)
(* executeJob goroutine of every job, CancelJob, Shutdown and the eviction *)
(* sweep.  Every section of code that runs under jobsMutex or runningMutex *)
(* is one atomic step; the code between two such sections is a step of its *)
(* own, so that every interleaving of the goroutines at lock granularity   *)
(* is a behaviour of Spec.  Shutdown keeps runningMutex over its whole     *)
(* loop, which is modelled by the guard RunningMutexFree.  The webhook     *)
(* Sender (webhooks.Sender) is modelled by the retry loop of each Send     *)
(* call.                                                                   *)
(***************************************************************************)
EXTENDS Integers, Sequences, FiniteSets, TLC

\* Number of job ids the model hands out (uuid.New() never repeats).
MaxJobs == 2
\* Last value of the clock read by time.Now().
MaxTime == 1
\* cfg.Jobs.MaxConcurrent, cfg.Jobs.MaxHistorySize, cfg.Jobs.DefaultTTL.
MaxConcurrent == 1
MaxHistorySize == 1
DefaultTTL == 1

IDs == 1 .. MaxJobs

\* A nil pointer is the empty tuple, a pointer to v is <<v>>.
Nil == << >>
Ptr(v) == << v >>

JobStatusPending == "pending"
JobStatusRunning == "running"
JobStatusCompleted == "completed"
JobStatusFailed == "failed"
JobStatusCancelled == "cancelled"

\* The allow-list of validateCommand.
allowedCommands ==
    { "new", "tell", "chat", "continue", "load", "ls", "plans", "cd",
      "apply", "build", "log", "convo", "diff", "current", "config",
      "models", "set-config", "set-model", "branches", "checkout",
      "archive", "unarchive", "usage", "version", "debug", "stop",
      "rewind", "reject", "clear", "summary", "delete-plan" }

\* Requests the callers make: commands, webhook URLs and TTL overrides.
Commands == { "tell", "rm-rf" }
WebhookURLs == { "", "http://hook" }
TTLs == { Nil, Ptr(0) }

\* What Execute can hand back: (result, err).
ExecuteResults ==
    { [result |-> Ptr([Output |-> "out", Error |-> "", ExitCode |-> 0]), err |-> Nil],
      [result |-> Ptr([Output |-> "out", Error |-> "boom", ExitCode |-> 2]),
       err |-> Ptr("exit status 2")],
      [result |-> Ptr([Output |-> "", Error |-> "bad", ExitCode |-> 1]), err |-> Nil],
      [result |-> Nil, err |-> Ptr("fork failed")] }

\* cfg.Webhooks.MaxRetries, and the number of Send calls the model follows.
MaxRetries == 2
MaxSends == 2

\* webhooks.retry_backoff, in seconds: the default.
RetryBackoff == 30

SendIDs == 1 .. MaxSends

\* What one call of sendWebhook can come to: a 2xx response, another status,
\* an error of httpClient.Do, or an error of http.NewRequest.
SendOutcomes == { "2xx", "500", "transport", "request" }

\* A Send call that has not been made.
NoSend ==
    [pc |-> "idle", url |-> "", update |-> Nil, attempt |-> 0, log |-> << >>,
     reqs |-> << >>, slept |-> << >>]

\* The record a job id points to before CreateJob has allocated it.
NoJob ==
    [Command |-> "", Status |-> "", CreatedAt |-> 0, StartedAt |-> Nil,
     CompletedAt |-> Nil, Output |-> "", Error |-> "", ExitCode |-> Nil,
     WebhookURL |-> "", TTL |-> 0]

VARIABLES
    jobs,         \* m.jobs: the ids in the job table
    job,          \* the Job each id points to (the record outlives its table entry)
    running,      \* m.running: the ids with a registered cancel function
    semaphore,    \* len(m.semaphore)
    ctxDone,      \* m.ctx is cancelled
    cancelled,    \* the jobs whose cancelFn has been invoked
    pc,           \* where the executeJob goroutine of each job is
    res,          \* executeJob's locals result, err
    cpc,          \* where the successful CancelJob call of each job is
    sdPc,         \* where Shutdown is
    sdTodo,       \* the entries of m.running Shutdown's loop has yet to visit
    now,          \* time.Now()
    sends,        \* the calls go m.webhookSender.Send(url, update) made so far
    executed,     \* history: the jobs Execute has been invoked for
    cancelOK,     \* history: the status CancelJob found when it succeeded
    sdSeen,       \* history: what each job was doing when Shutdown was called
    webhooks,     \* cfg.Webhooks
    delivery,     \* the calls of Sender.Send and where each of them is
    signed,       \* the last signature generated, and what verifying it gave
    server,       \* the JobManager of the app/cli API server and its goroutines
    locks         \* how far each task is in its lock and unlock calls

vars == << jobs, job, running, semaphore, ctxDone, cancelled, pc, res, cpc,
           sdPc, sdTodo, now, sends, executed, cancelOK, sdSeen, webhooks,
           delivery, signed, server, locks >>

\* NewManager.
NewManager ==
    /\ jobs = {}
    /\ job = [j \in IDs |-> NoJob]
    /\ running = {}
    /\ semaphore = 0
    /\ ctxDone = FALSE
    /\ cancelled = {}
    /\ pc = [j \in IDs |-> "none"]
    /\ res = [j \in IDs |-> Nil]
    /\ cpc = [j \in IDs |-> "idle"]
    /\ sdPc = "idle"
    /\ sdTodo = {}
    /\ now = 0
    /\ sends = {}
    /\ executed = {}
    /\ cancelOK = [j \in IDs |-> "no"]
    /\ sdSeen = [j \in IDs |-> "no"]

\* NewSender, for a configuration with webhooks.enabled and webhooks.secret
\* as given.
NewSender(enabled, secret) ==
    /\ webhooks = [Enabled |-> enabled, Secret |-> secret]
    /\ delivery = [s \in SendIDs |-> NoSend]
    /\ signed = Nil

\* A Job of the app/cli API server before handleChat or handleTell has made
\* it.
NoServerJob ==
    [Status |-> "", StartedAt |-> Nil, CompletedAt |-> Nil, Result |-> Nil,
     Error |-> "", cancel |-> FALSE, ctxDone |-> FALSE]

\* NewAPIServer: NewJobManager(maxConcurrent) makes an empty job table and a
\* semaphore channel of capacity maxConcurrent, with nothing in it.
NewJobManager ==
    server = [jobs |-> {}, job |-> [j \in IDs |-> NoServerJob],
              pc |-> [j \in IDs |-> "none"], semaphore |-> 0]

\* The tasks that take jobsMutex and runningMutex: the API calls, two
\* executeJob goroutines, the sweep and Shutdown.
Tasks ==
    { "CreateJob", "GetJob", "ListJobs", "CancelJob", "executeJob1", "executeJob2",
      "cleanupExpiredJobs", "Shutdown" }

\* No task has made a lock call yet.
NoLocks == locks = [t \in Tasks |-> 1]

Init == NewManager /\ NewSender(TRUE, "") /\ NewJobManager /\ NoLocks

\* Job.IsComplete.
IsComplete(j) ==
    j.Status = JobStatusCompleted \/ j.Status = JobStatusFailed
        \/ j.Status = JobStatusCancelled

\* validateCommand that only refuses the empty command.
validateCommandNonEmpty(command) == command # ""

\* validateCommand: TRUE when it returns nil.
validateCommand(command) == command \in allowedCommands

\* The ids CreateJob has allocated.
Created == { j \in IDs : pc[j] # "none" }

\* The process runs until a panic leaves a goroutine without being recovered.
ProcessAlive == \A j \in IDs : pc[j] # "panic"

\* time.Now() advances.
Tick ==
    /\ now < MaxTime
    /\ now' = now + 1
    /\ UNCHANGED << jobs, job, running, semaphore, ctxDone, cancelled, pc, res,
                    cpc, sdPc, sdTodo, sends, executed, cancelOK,
                    sdSeen, webhooks, delivery, signed,
                    server, locks >>

\* CreateJob's job running from the start.
NewJobRunning(command, url, ttl) ==
    [Command |-> command, Status |-> JobStatusRunning, CreatedAt |-> now,
     StartedAt |-> Ptr(now), CompletedAt |-> Nil, Output |-> "", Error |-> "",
     ExitCode |-> Nil, WebhookURL |-> url,
     TTL |-> IF ttl # Nil THEN ttl[1] ELSE DefaultTTL]

\* CreateJob's job with an exit code from the start.
NewJobZeroExit(command, url, ttl) ==
    [Command |-> command, Status |-> JobStatusPending, CreatedAt |-> now,
     StartedAt |-> Nil, CompletedAt |-> Nil, Output |-> "", Error |-> "",
     ExitCode |-> Ptr(0), WebhookURL |-> url,
     TTL |-> IF ttl # Nil THEN ttl[1] ELSE DefaultTTL]

\* The job CreateJob builds from a request.
NewJob(command, url, ttl) ==
    [Command |-> command, Status |-> JobStatusPending, CreatedAt |-> now,
     StartedAt |-> Nil, CompletedAt |-> Nil, Output |-> "", Error |-> "",
     ExitCode |-> Nil, WebhookURL |-> url,
     TTL |-> IF ttl # Nil THEN ttl[1] ELSE DefaultTTL]

\* What CreateJob returns for a command.
CreateJobResult(command) == IF validateCommand(command) THEN "ok" ELSE "invalid_command"

\* uuid.New(): an id no job has had.
NewID == CHOOSE j \in IDs \ Created : \A k \in IDs \ Created : j <= k

\* CreateJob(req): validate, insert, go m.executeJob(job).
CreateJob(command, url, ttl) ==
    IF CreateJobResult(command) # "ok"
    THEN UNCHANGED << pc, cpc, sdPc, sdTodo, jobs, now, job, running, semaphore,
                      ctxDone, cancelled, res, sends, executed, cancelOK,
                      sdSeen, webhooks, delivery, signed,
                      server, locks >>
    ELSE /\ ProcessAlive
         /\ Created # IDs
         /\ job' = [job EXCEPT ![NewID] = NewJob(command, url, ttl)]
         /\ jobs' = jobs \cup {NewID}
         /\ pc' = [pc EXCEPT ![NewID] = "acquire"]
         /\ UNCHANGED << running, semaphore, ctxDone, cancelled, res, cpc, sdPc,
                         sdTodo, now, sends, executed, cancelOK,
                         sdSeen, webhooks, delivery, signed,
                         server, locks >>

\* What GetJob returns for id.
GetJobResult(id) == IF id \in jobs THEN "ok" ELSE "not_found"

\* GetJob(id): a read under jobsMutex.
GetJob(id) ==
    /\ ProcessAlive
    /\ GetJobResult(id) \in { "ok", "not_found" }
    /\ UNCHANGED << pc, cpc, sdPc, sdTodo, jobs, now, job, running, semaphore,
                    ctxDone, cancelled, res, sends, executed, cancelOK,
                    sdSeen, webhooks, delivery, signed,
                    server, locks >>

\* The semaphore with room for one send more than its capacity.
SemaphoreHasRoomOffByOne == semaphore <= MaxConcurrent

\* The buffered channel m.semaphore accepts a send while it is not full.
SemaphoreHasRoom == semaphore < MaxConcurrent

\* runningMutex (only ever taken with Lock): only Shutdown keeps it across steps.
RunningMutexFree == sdPc # "loop"

\* jobCtx is a child of m.ctx: it is done once either is cancelled.
JobCtxDone(j) == ctxDone \/ j \in cancelled

\* The JobStatusUpdate built from the job's fields as they are when read.
Update(site, j) ==
    [site |-> site, JobID |-> j, Status |-> job[j].Status,
     CompletedAt |-> job[j].CompletedAt, Output |-> job[j].Output,
     Error |-> job[j].Error, ExitCode |-> job[j].ExitCode]

\* executeJob, the select: a slot of the semaphore ...
AcquireSlot(j) ==
    /\ ProcessAlive
    /\ pc[j] = "acquire"
    /\ SemaphoreHasRoom
    /\ semaphore' = semaphore + 1
    /\ pc' = [pc EXCEPT ![j] = "markRunning"]
    /\ UNCHANGED << jobs, job, running, ctxDone, cancelled, res, cpc, sdPc,
                    sdTodo, now, sends, executed, cancelOK,
                    sdSeen, webhooks, delivery, signed,
                    server, locks >>

\* ... or <-m.ctx.Done(): return without a slot.
AbandonSlot(j) ==
    /\ ProcessAlive
    /\ pc[j] = "acquire"
    /\ ctxDone
    /\ pc' = [pc EXCEPT ![j] = "done"]
    /\ UNCHANGED << jobs, job, running, semaphore, ctxDone, cancelled, res, cpc,
                    sdPc, sdTodo, now, sends, executed, cancelOK,
                    sdSeen, webhooks, delivery, signed,
                    server, locks >>

\* The job after "job.Status = JobStatusRunning; job.StartedAt = &now".
StartedJob(j) == [j EXCEPT !.Status = JobStatusRunning, !.StartedAt = Ptr(now)]

\* executeJob entering the start webhook block for every job.
AfterMarkRunningAlways(j) == "webhookStart"

\* Where executeJob goes on after the running transition: the block that
\* sends the start webhook is entered only for a job with a WebhookURL.
AfterMarkRunning(j) == IF job[j].WebhookURL # "" THEN "webhookStart" ELSE "register"

\* executeJob's first section without the check for a cancelled job.
MarkRunningNoCheck(j) ==
    /\ ProcessAlive
    /\ pc[j] = "markRunning"
    /\ job' = [job EXCEPT ![j] = StartedJob(job[j])]
    /\ pc' = [pc EXCEPT ![j] = AfterMarkRunning(j)]
    /\ UNCHANGED << jobs, running, semaphore, ctxDone, cancelled, res, cpc, sdPc,
                    sdTodo, now, sends, executed, cancelOK,
                    sdSeen, webhooks, delivery, signed,
                    server, locks >>

\* executeJob, first section under jobsMutex: a cancelled job returns (the
\* deferred receive frees the slot), any other becomes running.
MarkRunning(j) ==
    /\ ProcessAlive
    /\ pc[j] = "markRunning"
    /\ IF job[j].Status = JobStatusCancelled
       THEN /\ semaphore' = semaphore - 1
            /\ pc' = [pc EXCEPT ![j] = "done"]
            /\ UNCHANGED job
       ELSE /\ job' = [job EXCEPT ![j] = StartedJob(job[j])]
            /\ pc' = [pc EXCEPT ![j] = AfterMarkRunning(j)]
            /\ UNCHANGED semaphore
    /\ UNCHANGED << jobs, running, ctxDone, cancelled, res, cpc, sdPc, sdTodo,
                    now, sends, executed, cancelOK,
                    sdSeen, webhooks, delivery, signed,
                    server, locks >>

\* executeJob: the webhook for the job's start, fields read without the lock.
WebhookStart(j) ==
    /\ ProcessAlive
    /\ pc[j] = "webhookStart"
    /\ sends' = sends \cup { Update("start", j) }
    /\ pc' = [pc EXCEPT ![j] = "register"]
    /\ UNCHANGED << jobs, job, running, semaphore, ctxDone, cancelled, res, cpc,
                    sdPc, sdTodo, now, executed, cancelOK,
                    sdSeen, webhooks, delivery, signed,
                    server, locks >>

\* executeJob: m.running[job.ID] = cancelFn, then the call of Execute.
Register(j) ==
    /\ ProcessAlive
    /\ pc[j] = "register"
    /\ RunningMutexFree
    /\ running' = running \cup {j}
    /\ executed' = executed \cup {j}
    /\ pc' = [pc EXCEPT ![j] = "execute"]
    /\ UNCHANGED << jobs, job, semaphore, ctxDone, cancelled, res, cpc, sdPc,
                    sdTodo, now, sends, cancelOK,
                    sdSeen, webhooks, delivery, signed,
                    server, locks >>

\* Execute returns (result, err).
ExecuteReturn(j, r) ==
    /\ ProcessAlive
    /\ pc[j] = "execute"
    /\ res' = [res EXCEPT ![j] = Ptr(r)]
    /\ pc' = [pc EXCEPT ![j] = "unregister"]
    /\ UNCHANGED << jobs, job, running, semaphore, ctxDone, cancelled, cpc, sdPc,
                    sdTodo, now, sends, executed, cancelOK,
                    sdSeen, webhooks, delivery, signed,
                    server, locks >>

\* Execute panics.  executeJob has no recover: its deferred calls run (the
\* receive from the semaphore, cancelFn), nothing after the call of Execute
\* does, and the panic leaves the goroutine, which ends the process.
ExecutePanic(j) ==
    /\ ProcessAlive
    /\ pc[j] = "execute"
    /\ cancelled' = cancelled \cup {j}
    /\ semaphore' = semaphore - 1
    /\ pc' = [pc EXCEPT ![j] = "panic"]
    /\ UNCHANGED << jobs, job, running, ctxDone, res, cpc, sdPc, sdTodo, now,
                    sends, executed, cancelOK, sdSeen, webhooks, delivery,
                    signed,
                    server, locks >>

\* executeJob going on after Execute with its entry left in m.running.
UnregisterKeeps(j) ==
    /\ ProcessAlive
    /\ pc[j] = "unregister"
    /\ RunningMutexFree
    /\ pc' = [pc EXCEPT ![j] = "commit"]
    /\ UNCHANGED << jobs, job, running, semaphore, ctxDone, cancelled, res, cpc,
                    sdPc, sdTodo, now, sends, executed, cancelOK,
                    sdSeen, webhooks, delivery, signed,
                    server, locks >>

\* executeJob: delete(m.running, job.ID).
Unregister(j) ==
    /\ ProcessAlive
    /\ pc[j] = "unregister"
    /\ RunningMutexFree
    /\ running' = running \ {j}
    /\ pc' = [pc EXCEPT ![j] = "commit"]
    /\ UNCHANGED << jobs, job, semaphore, ctxDone, cancelled, res, cpc, sdPc,
                    sdTodo, now, sends, executed, cancelOK,
                    sdSeen, webhooks, delivery, signed,
                    server, locks >>

\* The output string executeJob assembles from result.
OutputOf(r) ==
    IF r.result = Nil THEN ""
    ELSE IF r.result[1].Error = "" THEN r.result[1].Output
    ELSE IF r.result[1].Output = "" THEN r.result[1].Error
    ELSE r.result[1].Output \o "\n" \o r.result[1].Error

\* executeJob's update judging by err alone.
CompletedJobErrOnly(j, r) ==
    IF r.err # Nil
    THEN [j EXCEPT !.CompletedAt = Ptr(now), !.Output = OutputOf(r),
                   !.Status = JobStatusFailed, !.Error = r.err[1],
                   !.ExitCode = IF r.result # Nil THEN Ptr(r.result[1].ExitCode)
                                ELSE Ptr(1)]
    ELSE [j EXCEPT !.CompletedAt = Ptr(now), !.Output = OutputOf(r),
                   !.Status = JobStatusCompleted, !.ExitCode = Ptr(0)]

\* executeJob's update leaving the status as it is.
CompletedJobKeepsStatus(j, r) == [j EXCEPT !.CompletedAt = Ptr(now), !.Output = OutputOf(r)]

\* The job after executeJob's "Update job with results".
CompletedJob(j, r) ==
    IF r.err # Nil \/ (r.result # Nil /\ r.result[1].ExitCode # 0)
    THEN [j EXCEPT !.CompletedAt = Ptr(now), !.Output = OutputOf(r),
                   !.Status = JobStatusFailed,
                   !.Error = IF r.err # Nil THEN r.err[1] ELSE @,
                   !.ExitCode = IF r.result # Nil THEN Ptr(r.result[1].ExitCode)
                                ELSE Ptr(1)]
    ELSE [j EXCEPT !.CompletedAt = Ptr(now), !.Output = OutputOf(r),
                   !.Status = JobStatusCompleted, !.ExitCode = Ptr(0)]

\* executeJob's second section dropping the entry of the job it finishes.
CommitAndDelete(j) ==
    /\ ProcessAlive
    /\ pc[j] = "commit"
    /\ job' = [job EXCEPT ![j] = CompletedJob(job[j], res[j][1])]
    /\ jobs' = jobs \ {j}
    /\ res' = [res EXCEPT ![j] = Nil]
    /\ pc' = [pc EXCEPT ![j] = "webhookFinal"]
    /\ UNCHANGED << running, semaphore, ctxDone, cancelled, cpc, sdPc,
                    sdTodo, now, sends, executed, cancelOK,
                    sdSeen, webhooks, delivery, signed,
                    server, locks >>

\* executeJob, second section under jobsMutex.
Commit(j) ==
    /\ ProcessAlive
    /\ pc[j] = "commit"
    /\ job' = [job EXCEPT ![j] = CompletedJob(job[j], res[j][1])]
    /\ res' = [res EXCEPT ![j] = Nil]
    /\ pc' = [pc EXCEPT ![j] = "webhookFinal"]
    /\ UNCHANGED << jobs, running, semaphore, ctxDone, cancelled, cpc, sdPc,
                    sdTodo, now, sends, executed, cancelOK,
                    sdSeen, webhooks, delivery, signed,
                    server, locks >>

\* executeJob's end without the deferred receive from the semaphore.
WebhookFinalKeepsSlot(j) ==
    /\ ProcessAlive
    /\ pc[j] = "webhookFinal"
    /\ sends' = IF job[j].WebhookURL # "" THEN sends \cup { Update("final", j) } ELSE sends
    /\ cancelled' = cancelled \cup {j}
    /\ pc' = [pc EXCEPT ![j] = "done"]
    /\ UNCHANGED << jobs, job, running, semaphore, ctxDone, res, cpc, sdPc, sdTodo,
                    now, executed, cancelOK,
                    sdSeen, webhooks, delivery, signed,
                    server, locks >>

\* The calls of Send made for job j have all returned.
Delivered(j) ==
    \A u \in sends : u.JobID = j =>
        \E s \in SendIDs : delivery[s].update = u /\ delivery[s].pc = "done"

\* executeJob's end holding the slot until the job's webhooks are delivered.
WebhookFinalWaits(j) ==
    /\ ProcessAlive
    /\ pc[j] = "webhookFinal"
    /\ Delivered(j)
    /\ sends' = IF job[j].WebhookURL # "" THEN sends \cup { Update("final", j) } ELSE sends
    /\ cancelled' = cancelled \cup {j}
    /\ semaphore' = semaphore - 1
    /\ pc' = [pc EXCEPT ![j] = "done"]
    /\ UNCHANGED << jobs, job, running, ctxDone, res, cpc, sdPc, sdTodo,
                    now, executed, cancelOK,
                    sdSeen, webhooks, delivery, signed,
                    server, locks >>

\* executeJob: the final webhook of a job with a WebhookURL, then the return
\* runs the deferred cancelFn() and the deferred receive from the semaphore.
WebhookFinal(j) ==
    /\ ProcessAlive
    /\ pc[j] = "webhookFinal"
    /\ sends' = IF job[j].WebhookURL # "" THEN sends \cup { Update("final", j) } ELSE sends
    /\ cancelled' = cancelled \cup {j}
    /\ semaphore' = semaphore - 1
    /\ pc' = [pc EXCEPT ![j] = "done"]
    /\ UNCHANGED << jobs, job, running, ctxDone, res, cpc, sdPc, sdTodo,
                    now, executed, cancelOK,
                    sdSeen, webhooks, delivery, signed,
                    server, locks >>

\* CancelJob without the IsComplete check.
CancelJobResultNoComplete(id) == IF id \notin jobs THEN "not_found" ELSE "ok"

\* CancelJob without the lookup in m.jobs.
CancelJobResultNoLookup(id) == IF IsComplete(job[id]) THEN "already_completed" ELSE "ok"

\* What CancelJob returns for id, decided under jobsMutex.
CancelJobResult(id) ==
    IF id \notin jobs THEN "not_found"
    ELSE IF IsComplete(job[id]) THEN "already_completed"
    ELSE "ok"

\* CancelJob's update without the assignment of CompletedAt.
CancelledJobNoStamp(j) == [j EXCEPT !.Status = JobStatusCancelled]

\* The job after "job.Status = JobStatusCancelled; job.CompletedAt = &now".
CancelledJob(j) == [j EXCEPT !.Status = JobStatusCancelled, !.CompletedAt = Ptr(now)]

\* CancelJob, the section under jobsMutex; the two errors return at once.
CancelJobLocked(id) ==
    IF CancelJobResult(id) # "ok"
    THEN UNCHANGED << pc, cpc, sdPc, sdTodo, jobs, now, job, running, semaphore,
                      ctxDone, cancelled, res, sends, executed, cancelOK,
                      sdSeen, webhooks, delivery, signed,
                      server, locks >>
    ELSE /\ ProcessAlive
         /\ job' = [job EXCEPT ![id] = CancelledJob(job[id])]
         /\ cpc' = [cpc EXCEPT ![id] = "registry"]
         /\ cancelOK' = [cancelOK EXCEPT ![id] = job[id].Status]
         /\ UNCHANGED << jobs, running, semaphore, ctxDone, cancelled, pc, res,
                         sdPc, sdTodo, now, sends, executed,
                         sdSeen, webhooks, delivery, signed,
                         server, locks >>

\* CancelJob, the section under runningMutex; a job without a WebhookURL
\* skips the webhook block, and CancelJob returns nil.
CancelJobRegistry(id) ==
    /\ ProcessAlive
    /\ cpc[id] = "registry"
    /\ RunningMutexFree
    /\ IF id \in running
       THEN /\ cancelled' = cancelled \cup {id}
            /\ running' = running \ {id}
       ELSE UNCHANGED << cancelled, running >>
    /\ cpc' = [cpc EXCEPT ![id] = IF job[id].WebhookURL # "" THEN "webhook" ELSE "idle"]
    /\ UNCHANGED << jobs, job, semaphore, ctxDone, pc, res, sdPc, sdTodo,
                    now, sends, executed, cancelOK,
                    sdSeen, webhooks, delivery, signed,
                    server, locks >>

\* CancelJob: the webhook, then return nil.
CancelJobWebhook(id) ==
    /\ ProcessAlive
    /\ cpc[id] = "webhook"
    /\ sends' = sends \cup { Update("cancel", id) }
    /\ cpc' = [cpc EXCEPT ![id] = "idle"]
    /\ UNCHANGED << jobs, job, running, semaphore, ctxDone, cancelled, pc, res,
                    sdPc, sdTodo, now, executed, cancelOK,
                    sdSeen, webhooks, delivery, signed,
                    server, locks >>

\* What a job is doing at the call of Shutdown: it is running, it waits for
\* a slot (or is yet to be created), or neither.
SeenAtShutdown(j) ==
    IF job[j].Status = JobStatusRunning THEN "running"
    ELSE IF pc[j] \in { "none", "acquire" } THEN "waiting"
    ELSE "other"

\* Shutdown: m.cancel().  The history sdSeen is kept when record is TRUE.
ShutdownCancel(record) ==
    /\ ProcessAlive
    /\ sdPc = "idle"
    /\ ctxDone' = TRUE
    /\ sdPc' = "lock"
    /\ sdSeen' = IF record THEN [j \in IDs |-> SeenAtShutdown(j)] ELSE sdSeen
    /\ UNCHANGED << jobs, job, running, semaphore, cancelled, pc, res, cpc,
                    sdTodo, now, sends, executed, cancelOK, webhooks, delivery,
                    signed,
                    server, locks >>

\* Shutdown: m.runningMutex.Lock() and the start of the range over m.running.
ShutdownLock ==
    /\ ProcessAlive
    /\ sdPc = "lock"
    /\ sdTodo' = running
    /\ sdPc' = "loop"
    /\ UNCHANGED << jobs, job, running, semaphore, ctxDone, cancelled, pc, res,
                    cpc, now, sends, executed, cancelOK,
                    sdSeen, webhooks, delivery, signed,
                    server, locks >>

\* Shutdown, one iteration: cancelFn(), then the job's update under jobsMutex.
ShutdownVisit(id) ==
    /\ ProcessAlive
    /\ sdPc = "loop"
    /\ id \in sdTodo
    /\ cancelled' = cancelled \cup {id}
    /\ job' = IF id \in jobs THEN [job EXCEPT ![id] = CancelledJob(job[id])] ELSE job
    /\ sdTodo' = sdTodo \ {id}
    /\ UNCHANGED << jobs, running, semaphore, ctxDone, pc, res, cpc, sdPc,
                    now, sends, executed, cancelOK,
                    sdSeen, webhooks, delivery, signed,
                    server, locks >>

\* Shutdown: the loop is over, m.runningMutex.Unlock().
ShutdownUnlock ==
    /\ ProcessAlive
    /\ sdPc = "loop"
    /\ sdTodo = {}
    /\ sdPc' = "done"
    /\ UNCHANGED << jobs, job, running, semaphore, ctxDone, cancelled, pc, res,
                    cpc, sdTodo, now, sends, executed, cancelOK,
                    sdSeen, webhooks, delivery, signed,
                    server, locks >>

\* The expiry test one time unit late.
ExpiredLate == { id \in jobs : job[id].CreatedAt + job[id].TTL + 1 < now }

\* cleanupExpiredJobs: the ids whose TTL has passed.
Expired == { id \in jobs : job[id].CreatedAt + job[id].TTL < now }

\* cleanupExpiredJobs: how many of the oldest jobs the history cap removes.
excessCount ==
    IF Cardinality(jobs) > MaxHistorySize THEN Cardinality(jobs) - MaxHistorySize ELSE 0

\* The orders in which "for _, job := range m.jobs" can fill sortedJobs.
RangeOrders ==
    { s \in [1 .. Cardinality(jobs) -> jobs] :
        \A i, k \in 1 .. Cardinality(jobs) : i # k => s[i] # s[k] }

\* The status filters ListJobs is called with: none, or a JobStatus.
StatusFilters ==
    { "", JobStatusPending, JobStatusRunning, JobStatusCompleted, JobStatusFailed,
      JobStatusCancelled }

\* The limits ListJobs is called with.
Limits == -1 .. MaxJobs + 1

\* ListJobs' filter letting every job through.
ListSkipsNone(status, id) == FALSE

\* ListJobs: "if status != "" && job.Status != status { continue }".
ListSkips(status, id) == status # "" /\ job[id].Status # status

\* ListJobs: the loop from position i of the range on, with the jobs
\* appended so far (count is their number).
RECURSIVE ListJobsLoop(_, _, _, _, _)
ListJobsLoop(order, i, status, limit, found) ==
    IF i > Len(order) THEN found
    ELSE IF ListSkips(status, order[i]) THEN ListJobsLoop(order, i + 1, status, limit, found)
    ELSE IF limit > 0 /\ Len(found) + 1 >= limit THEN Append(found, order[i])
    ELSE ListJobsLoop(order, i + 1, status, limit, Append(found, order[i]))

\* What ListJobs(status, limit) returns when the range over m.jobs goes in
\* order.
ListJobsResult(order, status, limit) == ListJobsLoop(order, 1, status, limit, << >>)

\* ListJobs(status, limit): a read under jobsMutex.
ListJobs(status, limit) ==
    /\ ProcessAlive
    /\ \E order \in RangeOrders : Len(ListJobsResult(order, status, limit)) <= Len(order)
    /\ UNCHANGED << pc, cpc, sdPc, sdTodo, jobs, now, job, running, semaphore,
                    ctxDone, cancelled, res, sends, executed, cancelOK,
                    sdSeen, webhooks, delivery, signed,
                    server, locks >>

\* The sort's comparison the other way round.
CreatedBefore(a, b) == job[a].CreatedAt < job[b].CreatedAt

\* sortedJobs[j].CreatedAt.After(sortedJobs[j+1].CreatedAt).
CreatedAfter(a, b) == job[a].CreatedAt > job[b].CreatedAt

\* The bubble sort's inner loop from (0-based) index j on, in pass i.
RECURSIVE BubblePass(_, _, _)
BubblePass(s, i, j) ==
    IF j >= Len(s) - i - 1 THEN s
    ELSE BubblePass(IF CreatedAfter(s[j + 1], s[j + 2])
                    THEN [s EXCEPT ![j + 1] = s[j + 2], ![j + 2] = s[j + 1]]
                    ELSE s,
                    i, j + 1)

\* The bubble sort's outer loop from pass i on.
RECURSIVE BubbleSort(_, _)
BubbleSort(s, i) ==
    IF i >= Len(s) - 1 THEN s ELSE BubbleSort(BubblePass(s, i, 0), i + 1)

\* The sets the first excessCount jobs of sortedJobs can be; the table is
\* sorted only when it is over the cap.
OldestSets ==
    IF excessCount = 0 THEN { {} }
    ELSE { { BubbleSort(s, 0)[i] : i \in 1 .. excessCount } : s \in RangeOrders }

\* cleanupRoutine, case <-ticker.C: cleanupExpiredJobs().  After Shutdown the
\* select may still take a tick that is ready, so a sweep stays possible.
cleanupExpiredJobs ==
    /\ ProcessAlive
    /\ \E E \in OldestSets : jobs' = jobs \ (Expired \cup E)
    /\ UNCHANGED << job, running, semaphore, ctxDone, cancelled, pc, res, cpc,
                    sdPc, sdTodo, now, sends, executed, cancelOK,
                    sdSeen, webhooks, delivery, signed,
                    server, locks >>

\* The values webhooks.secret is configured with: none, or a key.
Secrets == { "", "s3cret" }

\* The decimal digits, as fmt's %d writes them.
Digits == << "0", "1", "2", "3", "4", "5", "6", "7", "8", "9" >>

\* fmt.Sprintf("%d", n) for n >= 0.
RECURSIVE Itoa(_)
Itoa(n) == IF n < 10 THEN Digits[n + 1] ELSE Itoa(n \div 10) \o Digits[(n % 10) + 1]

\* json.Marshal(update): job_id and status always, the other fields only
\* when they are not empty (omitempty); no Metadata is ever set.
Marshal(update) ==
    "{\"job_id\":\"" \o Itoa(update.JobID) \o "\",\"status\":\"" \o update.Status \o "\""
    \o (IF update.CompletedAt # Nil
           THEN ",\"completed_at\":\"T" \o Itoa(update.CompletedAt[1]) \o "\"" ELSE "")
    \o (IF update.Output # "" THEN ",\"output\":\"" \o update.Output \o "\"" ELSE "")
    \o (IF update.Error # "" THEN ",\"error\":\"" \o update.Error \o "\"" ELSE "")
    \o (IF update.ExitCode # Nil
           THEN ",\"exit_code\":" \o Itoa(update.ExitCode[1]) ELSE "")
    \o "}"

\* hex.EncodeToString of the HMAC-SHA256 of message under key: a keyed
\* function without collisions.
HmacSHA256Hex(key, message) == "hmac(" \o key \o "," \o message \o ")"

\* generateSignature's message with the timestamp and the payload run together.
SignedMessageNoDot(payload, timestamp) == Itoa(timestamp) \o payload

\* generateSignature: message := fmt.Sprintf("%d.%s", timestamp, payload).
SignedMessage(payload, timestamp) == Itoa(timestamp) \o "." \o payload

\* Sender.generateSignature(payload, timestamp).
generateSignature(payload, timestamp) ==
    "sha256=" \o HmacSHA256Hex(webhooks.Secret, SignedMessage(payload, timestamp))

\* Sender.VerifySignature(payload, timestamp, signature).
VerifySignature(payload, timestamp, signature) ==
    IF webhooks.Secret = "" THEN TRUE
    ELSE signature = generateSignature(payload, timestamp)

\* The header names sendWebhook sets on every request.
PlainHeaderNames == { "Content-Type", "User-Agent", "X-Webhook-Timestamp" }

\* The value sendWebhook sets a header to.
HeaderValue(name, payload, timestamp) ==
    CASE name = "Content-Type" -> "application/json"
      [] name = "User-Agent" -> "plandex-cli-api/1.0"
      [] name = "X-Webhook-Timestamp" -> Itoa(timestamp)
      [] name = "X-Webhook-Signature" -> generateSignature(payload, timestamp)

\* sendWebhook's headers with a signature whatever the secret is.
RequestHeaderAlwaysSigned(payload, timestamp) ==
    [name \in PlainHeaderNames \cup { "X-Webhook-Signature" } |->
        HeaderValue(name, payload, timestamp)]

\* sendWebhook: the headers of the request: the signature only if a secret
\* is configured.
RequestHeader(payload, timestamp) ==
    [name \in PlainHeaderNames \cup
              (IF webhooks.Secret # "" THEN { "X-Webhook-Signature" } ELSE { }) |->
        HeaderValue(name, payload, timestamp)]

\* sendWebhook: the POST request handed to httpClient.Do.
Request(url, update) ==
    [method |-> "POST", url |-> url, body |-> Marshal(update),
     header |-> RequestHeader(Marshal(update), now)]

\* Send's for loop with one iteration more.
SendLoopOneMore(attempt) == IF attempt <= MaxRetries + 1 THEN "attempt" ELSE "done"

\* Where Send's for loop goes with its counter at attempt.
SendLoop(attempt) == IF attempt <= MaxRetries THEN "attempt" ELSE "done"

\* Sender.Send(url, update): return at once when webhooks are disabled,
\* otherwise enter the loop with attempt = 0.
Send(s, url, update) ==
    /\ ProcessAlive
    /\ delivery[s].pc = "idle"
    /\ delivery' = [delivery EXCEPT ![s] =
           [pc |-> IF webhooks.Enabled THEN SendLoop(0) ELSE "done",
            url |-> url, update |-> update, attempt |-> 0, log |-> << >>,
            reqs |-> << >>, slept |-> << >>]]
    /\ UNCHANGED << jobs, job, running, semaphore, ctxDone, cancelled, pc, res,
                    cpc, sdPc, sdTodo, now, sends, executed, cancelOK, sdSeen,
                    webhooks, signed,
                    server, locks >>

\* Where Send goes after sendWebhook has returned: break on success, Sleep
\* and continue while retries are left, else on to the end of the loop.
AfterSendWebhook(d, outcome) ==
    IF outcome = "2xx" THEN [d EXCEPT !.pc = "done"]
    ELSE IF d.attempt < MaxRetries THEN [d EXCEPT !.pc = "sleep"]
    ELSE [d EXCEPT !.attempt = @ + 1, !.pc = SendLoop(d.attempt + 1)]

\* A sendWebhook whose last failure marks the job failed.
sendWebhookEscalates(s, outcome) ==
    /\ ProcessAlive
    /\ delivery[s].pc = "attempt"
    /\ delivery' = [delivery EXCEPT ![s] =
           [@ EXCEPT !.log = Append(@, outcome),
                     !.pc = IF outcome = "2xx" THEN "done"
                            ELSE IF delivery[s].attempt < MaxRetries THEN "sleep"
                            ELSE "done"]]
    /\ job' = IF outcome # "2xx" /\ delivery[s].attempt >= MaxRetries
              THEN [job EXCEPT ![delivery[s].update.JobID].Status = JobStatusFailed]
              ELSE job
    /\ UNCHANGED << jobs, running, semaphore, ctxDone, cancelled, pc, res,
                    cpc, sdPc, sdTodo, now, sends, executed, cancelOK, sdSeen,
                    webhooks, signed,
                    server, locks >>

\* The requests of a Send call after sendWebhook has come to outcome: when
\* http.NewRequest fails there is no request, else httpClient.Do gets one.
Requests(d, outcome) ==
    IF outcome = "request" THEN d.reqs ELSE Append(d.reqs, Request(d.url, d.update))

\* Send, one iteration: sendWebhook makes a delivery attempt, which comes to
\* outcome.
sendWebhook(s, outcome) ==
    /\ ProcessAlive
    /\ delivery[s].pc = "attempt"
    /\ delivery' = [delivery EXCEPT ![s] =
           AfterSendWebhook([delivery[s] EXCEPT !.log = Append(@, outcome),
                                               !.reqs = Requests(delivery[s], outcome)],
                            outcome)]
    /\ UNCHANGED << jobs, job, running, semaphore, ctxDone, cancelled, pc, res,
                    cpc, sdPc, sdTodo, now, sends, executed, cancelOK, sdSeen,
                    webhooks, signed,
                    server, locks >>

\* Send's backoff counted from the loop's counter as it is.
BackoffFromZero(attempt) == RetryBackoff * attempt

\* Send: backoff := RetryBackoff * time.Duration(attempt+1).
Backoff(attempt) == RetryBackoff * (attempt + 1)

\* Send: time.Sleep(backoff) returns, continue with attempt++.
SendSleep(s) ==
    /\ ProcessAlive
    /\ delivery[s].pc = "sleep"
    /\ delivery' = [delivery EXCEPT ![s] =
           [@ EXCEPT !.attempt = @ + 1, !.pc = SendLoop(delivery[s].attempt + 1),
                     !.slept = Append(@, Backoff(delivery[s].attempt))]]
    /\ UNCHANGED << jobs, job, running, semaphore, ctxDone, cancelled, pc, res,
                    cpc, sdPc, sdTodo, now, sends, executed, cancelOK, sdSeen,
                    webhooks, signed,
                    server, locks >>

\* The steps of the Manager that do not depend on a webhook or on the clock,
\* for the requests and the Execute results given.
Step(urls, ttls, results, record) ==
    \/ \E command \in Commands, url \in urls, ttl \in ttls :
          CreateJob(command, url, ttl)
    \/ \E id \in IDs : GetJob(id)
    \/ \E id \in IDs : CancelJobLocked(id)
    \/ \E id \in IDs : CancelJobRegistry(id)
    \/ \E j \in IDs : AcquireSlot(j)
    \/ \E j \in IDs : AbandonSlot(j)
    \/ \E j \in IDs : MarkRunning(j)
    \/ \E j \in IDs : Register(j)
    \/ \E j \in IDs, r \in results : ExecuteReturn(j, r)
    \/ \E j \in IDs : Unregister(j)
    \/ \E j \in IDs : Commit(j)
    \/ \E j \in IDs : WebhookFinal(j)
    \/ ShutdownCancel(record)
    \/ ShutdownLock
    \/ \E id \in IDs : ShutdownVisit(id)
    \/ ShutdownUnlock
    \/ cleanupExpiredJobs

\* Execute succeeding.
ExecuteOK == { r \in ExecuteResults : r.err = Nil /\ r.result[1].ExitCode = 0 }

\* Execute succeeding, or failing before the command has run.
ExecutePlain == ExecuteOK \cup { r \in ExecuteResults : r.result = Nil }

\* The Manager within one reading of the clock, with jobs that name no
\* webhook and keep the default TTL.
Next == Step({ "" }, { Nil }, ExecutePlain, FALSE)

Spec == Init /\ [][Next]_vars

\* The Manager as time passes.
NextClock == Tick \/ Step({ "" }, { Nil }, ExecuteOK, FALSE)

SpecClock == Init /\ [][NextClock]_vars

\* The steps only a job with a WebhookURL takes.
WebhookStep ==
    \/ \E j \in IDs : WebhookStart(j)
    \/ \E id \in IDs : CancelJobWebhook(id)

\* The Manager with jobs that name a webhook.
NextWebhooks == Step(WebhookURLs, { Nil }, ExecuteOK, FALSE) \/ WebhookStep

SpecWebhooks == Init /\ [][NextWebhooks]_vars

\* The Manager as time passes, with jobs that bring a TTL of their own.
NextSweep == Tick \/ Step({ "" }, TTLs, ExecuteOK, FALSE)

SpecSweep == Init /\ [][NextSweep]_vars

\* The Manager with every result Execute can hand back.
NextResults == Step({ "" }, { Nil }, ExecuteResults, FALSE)

SpecResults == Init /\ [][NextResults]_vars

\* The goroutine of "go m.webhookSender.Send(job.WebhookURL, update)" gets
\* to run: the call of Send for an update no call was made for yet, under
\* the first identity no call has.
SendGo(s, update) ==
    /\ update \in sends
    /\ \A t \in SendIDs : t < s => delivery[t].pc # "idle"
    /\ \A t \in SendIDs : delivery[t].update # update
    /\ Send(s, job[update.JobID].WebhookURL, update)

\* The Send call that is followed through the Sender when the Manager runs
\* together with it: the first.
FollowedSends == { s \in SendIDs : \A t \in SendIDs : s <= t }

\* The Manager together with the Sender: jobs with and without a webhook,
\* webhooks enabled or not, and endpoints that answer 2xx or 500.
InitDelivery ==
    /\ NewManager /\ NewJobManager /\ NoLocks
    /\ \E enabled \in BOOLEAN : NewSender(enabled, "")

NextDelivery ==
    \/ \E command \in Commands, url \in WebhookURLs : CreateJob(command, url, Nil)
    \/ \E id \in IDs : CancelJobLocked(id)
    \/ \E id \in IDs : CancelJobRegistry(id)
    \/ \E id \in IDs : CancelJobWebhook(id)
    \/ \E j \in IDs : AcquireSlot(j)
    \/ \E j \in IDs : MarkRunning(j)
    \/ \E j \in IDs : WebhookStart(j)
    \/ \E j \in IDs : Register(j)
    \/ \E j \in IDs, r \in ExecuteOK : ExecuteReturn(j, r)
    \/ \E j \in IDs : Unregister(j)
    \/ \E j \in IDs : Commit(j)
    \/ \E j \in IDs : WebhookFinal(j)
    \/ \E s \in FollowedSends, update \in sends : SendGo(s, update)
    \/ \E s \in FollowedSends, outcome \in { "2xx", "500" } : sendWebhook(s, outcome)
    \/ \E s \in FollowedSends : SendSleep(s)

SpecDelivery == InitDelivery /\ [][NextDelivery]_vars

\* The Manager when Shutdown is never called: jobs are created, cancelled,
\* executed and evicted.
NextLive ==
    \/ \E command \in Commands : CreateJob(command, "", Nil)
    \/ \E id \in IDs : CancelJobLocked(id)
    \/ \E id \in IDs : CancelJobRegistry(id)
    \/ \E j \in IDs : AcquireSlot(j)
    \/ \E j \in IDs : MarkRunning(j)
    \/ \E j \in IDs : Register(j)
    \/ \E j \in IDs, r \in ExecutePlain : ExecuteReturn(j, r)
    \/ \E j \in IDs : Unregister(j)
    \/ \E j \in IDs : Commit(j)
    \/ \E j \in IDs : WebhookFinal(j)
    \/ cleanupExpiredJobs

\* The scheduler lets every executeJob goroutine that can take a step take
\* one, a goroutine that waits at the semaphore gets a slot that is free
\* again and again, and every call of Execute returns.
FairExecuteJob ==
    \A j \in IDs :
        /\ SF_vars(AcquireSlot(j))
        /\ WF_vars(MarkRunning(j))
        /\ WF_vars(Register(j))
        /\ WF_vars(\E r \in ExecutePlain : ExecuteReturn(j, r))
        /\ WF_vars(Unregister(j))
        /\ WF_vars(Commit(j))
        /\ WF_vars(WebhookFinal(j))

SpecLive == Init /\ [][NextLive]_vars /\ FairExecuteJob

\* The Manager with callers that list the jobs.
NextList ==
    \/ Step({ "" }, { Nil }, ExecuteOK, FALSE)
    \/ \E status \in StatusFilters, limit \in Limits : ListJobs(status, limit)

SpecList == Init /\ [][NextList]_vars

\* The Manager with the history of what Shutdown found.
NextShutdown == Step({ "" }, { Nil }, ExecutePlain, TRUE)

SpecShutdown == Init /\ [][NextShutdown]_vars

\* The Manager with an Execute that can panic.
NextPanic == Next \/ \E j \in IDs : ExecutePanic(j)

SpecPanic == Init /\ [][NextPanic]_vars

\* The webhook Sender on its own, with webhooks enabled or not, for the calls
\* of Send the Manager's goroutines make.
InitSender ==
    /\ NewManager /\ NewJobManager /\ NoLocks
    /\ \E enabled \in BOOLEAN, secret \in Secrets : NewSender(enabled, secret)

\* The status updates the Sender is handed on its own: one for a start and
\* one for a failure.
SenderUpdates ==
    { [site |-> "start", JobID |-> 1, Status |-> JobStatusRunning,
       CompletedAt |-> Nil, Output |-> "", Error |-> "", ExitCode |-> Nil],
      [site |-> "final", JobID |-> 1, Status |-> JobStatusFailed,
       CompletedAt |-> Ptr(1), Output |-> "out", Error |-> "boom",
       ExitCode |-> Ptr(2)] }

NextSender ==
    \/ Tick
    \/ \E s \in SendIDs, url \in WebhookURLs \ { "" }, update \in SenderUpdates :
          Send(s, url, update)
    \/ \E s \in SendIDs, outcome \in SendOutcomes : sendWebhook(s, outcome)
    \/ \E s \in SendIDs : SendSleep(s)

SpecSender == InitSender /\ [][NextSender]_vars

\* The payloads and the timestamps signatures are made and verified for.
Payloads == { "a", "0a", "{}", "1.a" }

Timestamps == { 0, 1, 10 }

\* A call of generateSignature(payload, timestamp), its result kept.
Sign(payload, timestamp) ==
    /\ signed' = [payload |-> payload, timestamp |-> timestamp,
                  signature |-> generateSignature(payload, timestamp),
                  verified |-> Nil]
    /\ UNCHANGED << jobs, job, running, semaphore, ctxDone, cancelled, pc, res,
                    cpc, sdPc, sdTodo, now, sends, executed, cancelOK, sdSeen,
                    webhooks, delivery,
                    server, locks >>

\* A call of VerifySignature(payload, timestamp, signature) with the
\* signature made last, its result kept.
Verify(payload, timestamp) ==
    /\ signed # Nil
    /\ signed' = [signed EXCEPT !.verified =
           << [payload |-> payload, timestamp |-> timestamp,
               ok |-> VerifySignature(payload, timestamp, signed.signature)] >>]
    /\ UNCHANGED << jobs, job, running, semaphore, ctxDone, cancelled, pc, res,
                    cpc, sdPc, sdTodo, now, sends, executed, cancelOK, sdSeen,
                    webhooks, delivery,
                    server, locks >>

\* Signing and verifying on their own, with a secret configured or not.
InitSignature ==
    /\ NewManager /\ NewJobManager /\ NoLocks
    /\ \E secret \in Secrets : NewSender(TRUE, secret)

NextSignature ==
    \/ \E payload \in Payloads, timestamp \in Timestamps : Sign(payload, timestamp)
    \/ \E payload \in Payloads, timestamp \in Timestamps : Verify(payload, timestamp)

SpecSignature == InitSignature /\ [][NextSignature]_vars


(***************************************************************************)
(* The app/cli API server: JobManager, handleChat, handleTell,             *)
(* executeJobAsync and handleCancelJob.                                    *)
(***************************************************************************)

\* The prompts of a ChatRequest or TellRequest: blank, or not.
Prompts == { " ", "hi" }

\* strings.TrimSpace(req.Prompt) == "".
BlankPrompt(prompt) == prompt \in { "", " " }

\* What executePlandexFunction can come to: a result, an error, a panic.
PlandexOutcomes == { "result", "error", "panic" }

\* The ids the server has given to jobs.
ServerJobs == { j \in IDs : server.pc[j] # "none" }

\* generateJobID(): an id no job of the server has had.
ServerNewID == CHOOSE j \in IDs \ ServerJobs : \A k \in IDs \ ServerJobs : j <= k

\* Job.SetStatus(status) under the job's lock: the status is assigned, and
\* StartedAt or CompletedAt stamped if it was nil.
SetStatus(j, status) ==
    [j EXCEPT !.Status = status,
              !.StartedAt = IF status = JobStatusRunning /\ @ = Nil THEN Ptr(now) ELSE @,
              !.CompletedAt =
                  IF status \in { JobStatusCompleted, JobStatusFailed, JobStatusCancelled }
                     /\ @ = Nil
                  THEN Ptr(now) ELSE @]

\* handleChat and handleTell after the request is decoded: a blank prompt is
\* answered 400; otherwise a pending Job is made, AddJob puts it into the
\* table and go s.executeJobAsync(job, ...) is started.
SubmitJob(prompt) ==
    IF BlankPrompt(prompt)
    THEN UNCHANGED vars
    ELSE /\ ServerJobs # IDs
         /\ server' = [server EXCEPT
                !.jobs = @ \cup { ServerNewID },
                !.job[ServerNewID] = [NoServerJob EXCEPT !.Status = JobStatusPending],
                !.pc[ServerNewID] = "async"]
         /\ UNCHANGED << jobs, job, running, semaphore, ctxDone, cancelled, pc, res,
                         cpc, sdPc, sdTodo, now, sends, executed, cancelOK, sdSeen,
                         webhooks, delivery, signed, locks >>

\* POST /chat.
handleChat(prompt) == SubmitJob(prompt)

\* POST /tell.
handleTell(prompt) == SubmitJob(prompt)

\* executeJobAsync: the context is made, job.cancel is set, and the inner
\* goroutine is started.
executeJobAsync(j) ==
    /\ server.pc[j] = "async"
    /\ server' = [server EXCEPT !.job[j].cancel = TRUE, !.pc[j] = "start"]
    /\ UNCHANGED << jobs, job, running, semaphore, ctxDone, cancelled, pc, res,
                    cpc, sdPc, sdTodo, now, sends, executed, cancelOK, sdSeen,
                    webhooks, delivery, signed, locks >>

\* The inner goroutine: job.SetStatus(JobStatusRunning), then the call of
\* executePlandexFunction.  Nothing is sent to or received from the
\* semaphore.
AsyncStart(j) ==
    /\ server.pc[j] = "start"
    /\ server' = [server EXCEPT !.job[j] = SetStatus(@, JobStatusRunning),
                                !.pc[j] = "exec"]
    /\ UNCHANGED << jobs, job, running, semaphore, ctxDone, cancelled, pc, res,
                    cpc, sdPc, sdTodo, now, sends, executed, cancelOK, sdSeen,
                    webhooks, delivery, signed, locks >>

\* executePlandexFunction comes to outcome; the goroutine then calls
\* job.SetResult, or job.SetError (for a panic, in the deferred recover).
executePlandexFunction(j, outcome) ==
    /\ server.pc[j] = "exec"
    /\ server' = [server EXCEPT
           !.job[j] = IF outcome = "result" THEN [@ EXCEPT !.Result = Ptr("ok")]
                      ELSE IF outcome = "error"
                      THEN [@ EXCEPT !.Error = "Plandex execution failed"]
                      ELSE [@ EXCEPT !.Error = "Job panicked"],
           !.pc[j] = IF outcome = "result" THEN "completed" ELSE "failed"]
    /\ UNCHANGED << jobs, job, running, semaphore, ctxDone, cancelled, pc, res,
                    cpc, sdPc, sdTodo, now, sends, executed, cancelOK, sdSeen,
                    webhooks, delivery, signed, locks >>

\* The inner goroutine's last call, job.SetStatus(JobStatusCompleted) or
\* job.SetStatus(JobStatusFailed), and the deferred cancel().
AsyncFinish(j) ==
    /\ server.pc[j] \in { "completed", "failed" }
    /\ server' = [server EXCEPT
           !.job[j] = [SetStatus(@, IF server.pc[j] = "completed" THEN JobStatusCompleted
                                    ELSE JobStatusFailed)
                       EXCEPT !.ctxDone = TRUE],
           !.pc[j] = "done"]
    /\ UNCHANGED << jobs, job, running, semaphore, ctxDone, cancelled, pc, res,
                    cpc, sdPc, sdTodo, now, sends, executed, cancelOK, sdSeen,
                    webhooks, delivery, signed, locks >>

\* DELETE /jobs/{id}: 404 for an id that is not in the table; otherwise
\* job.cancel() if it is set, and job.SetStatus(JobStatusCancelled).
handleCancelJob(id) ==
    IF id \notin server.jobs
    THEN UNCHANGED vars
    ELSE /\ server' = [server EXCEPT
                !.job[id] = [SetStatus(@, JobStatusCancelled)
                             EXCEPT !.ctxDone = @ \/ server.job[id].cancel]]
         /\ UNCHANGED << jobs, job, running, semaphore, ctxDone, cancelled, pc, res,
                         cpc, sdPc, sdTodo, now, sends, executed, cancelOK, sdSeen,
                         webhooks, delivery, signed, locks >>

\* The API server as time passes.
NextServer ==
    \/ Tick
    \/ \E prompt \in Prompts : handleChat(prompt)
    \/ \E prompt \in Prompts : handleTell(prompt)
    \/ \E j \in IDs : executeJobAsync(j)
    \/ \E j \in IDs : AsyncStart(j)
    \/ \E j \in IDs, outcome \in PlandexOutcomes : executePlandexFunction(j, outcome)
    \/ \E j \in IDs : AsyncFinish(j)
    \/ \E id \in IDs : handleCancelJob(id)

SpecServer == Init /\ [][NextServer]_vars

(***************************************************************************)
(* The Manager's two locks: what each task calls on m.jobsMutex and        *)
(* m.runningMutex, in the order of its code.                               *)
(***************************************************************************)

\* CancelJob taking runningMutex before it has released jobsMutex.
CancelJobLocksNested ==
    << << "Lock", "jobsMutex" >>, << "Lock", "runningMutex" >>,
       << "Unlock", "runningMutex" >>, << "Unlock", "jobsMutex" >> >>

\* CancelJob: jobsMutex for the update, then runningMutex for the registry.
CancelJobLocks ==
    << << "Lock", "jobsMutex" >>, << "Unlock", "jobsMutex" >>,
       << "Lock", "runningMutex" >>, << "Unlock", "runningMutex" >> >>

\* CreateJob and cleanupExpiredJobs: one section under jobsMutex.
WriteJobsLocks == << << "Lock", "jobsMutex" >>, << "Unlock", "jobsMutex" >> >>

\* GetJob and ListJobs: one section under jobsMutex held for reading.
ReadJobsLocks == << << "RLock", "jobsMutex" >>, << "RUnlock", "jobsMutex" >> >>

\* executeJob: the running transition, the registration, the removal from
\* the registry, the update with the results.
executeJobLocks ==
    << << "Lock", "jobsMutex" >>, << "Unlock", "jobsMutex" >>,
       << "Lock", "runningMutex" >>, << "Unlock", "runningMutex" >>,
       << "Lock", "runningMutex" >>, << "Unlock", "runningMutex" >>,
       << "Lock", "jobsMutex" >>, << "Unlock", "jobsMutex" >> >>

\* Shutdown: runningMutex around the loop, jobsMutex inside each iteration
\* (two iterations, one for each executeJob goroutine).
ShutdownLocks ==
    << << "Lock", "runningMutex" >>,
       << "Lock", "jobsMutex" >>, << "Unlock", "jobsMutex" >>,
       << "Lock", "jobsMutex" >>, << "Unlock", "jobsMutex" >>,
       << "Unlock", "runningMutex" >> >>

\* The lock calls of task t.
LockCalls(t) ==
    CASE t = "CreateJob" -> WriteJobsLocks
      [] t = "cleanupExpiredJobs" -> WriteJobsLocks
      [] t = "GetJob" -> ReadJobsLocks
      [] t = "ListJobs" -> ReadJobsLocks
      [] t = "CancelJob" -> CancelJobLocks
      [] t \in { "executeJob1", "executeJob2" } -> executeJobLocks
      [] t = "Shutdown" -> ShutdownLocks

\* How often task t has made call op on mutex among its first n calls.
RECURSIVE CallCount(_, _, _, _)
CallCount(t, n, op, mutex) ==
    IF n = 0 THEN 0
    ELSE CallCount(t, n - 1, op, mutex)
         + (IF LockCalls(t)[n] = << op, mutex >> THEN 1 ELSE 0)

\* Task t holds mutex for writing.
HoldsLock(t, mutex) ==
    CallCount(t, locks[t] - 1, "Lock", mutex) > CallCount(t, locks[t] - 1, "Unlock", mutex)

\* Task t holds mutex for reading.
HoldsRLock(t, mutex) ==
    CallCount(t, locks[t] - 1, "RLock", mutex) > CallCount(t, locks[t] - 1, "RUnlock", mutex)

\* Task t has calls left.
LocksLeft(t) == locks[t] <= Len(LockCalls(t))

\* The next call of task t.
NextCall(t) == LockCalls(t)[locks[t]]

\* sync.RWMutex: Lock returns when no task holds the mutex, RLock when no
\* task holds it for writing; Unlock and RUnlock return at once.
CanReturn(t) ==
    /\ LocksLeft(t)
    /\ NextCall(t)[1] = "Lock" =>
          \A u \in Tasks : ~HoldsLock(u, NextCall(t)[2]) /\ ~HoldsRLock(u, NextCall(t)[2])
    /\ NextCall(t)[1] = "RLock" => \A u \in Tasks : ~HoldsLock(u, NextCall(t)[2])

\* The next lock call of task t returns.
MutexLock(t) ==
    /\ CanReturn(t)
    /\ NextCall(t)[1] \in { "Lock", "RLock" }
    /\ locks' = [locks EXCEPT ![t] = @ + 1]
    /\ UNCHANGED << jobs, job, running, semaphore, ctxDone, cancelled, pc, res,
                    cpc, sdPc, sdTodo, now, sends, executed, cancelOK, sdSeen,
                    webhooks, delivery, signed, server >>

\* The next unlock call of task t.
MutexUnlock(t) ==
    /\ CanReturn(t)
    /\ NextCall(t)[1] \in { "Unlock", "RUnlock" }
    /\ locks' = [locks EXCEPT ![t] = @ + 1]
    /\ UNCHANGED << jobs, job, running, semaphore, ctxDone, cancelled, pc, res,
                    cpc, sdPc, sdTodo, now, sends, executed, cancelOK, sdSeen,
                    webhooks, delivery, signed, server >>

\* The tasks of the Manager at their locks, in every interleaving.
NextLocks ==
    \/ \E t \in Tasks : MutexLock(t)
    \/ \E t \in Tasks : MutexUnlock(t)

SpecLocks == Init /\ [][NextLocks]_vars

(***************************************************************************)
(* The claims.                                                             *)
(***************************************************************************)

\* The executeJob goroutines between the send to the semaphore and the
\* deferred receive.
SlotHolders ==
    { j \in IDs : pc[j] \in { "markRunning", "webhookStart", "register", "execute",
                              "unregister", "commit", "webhookFinal" } }

\* The jobs with a call of Execute in progress.
Executing == { j \in IDs : pc[j] = "execute" }

\* C1: the number of executeJob tasks that hold a semaphore slot, and so the
\* number of Execute calls in progress, never exceeds max_concurrent.
C1_ConcurrencyBound ==
    /\ Cardinality(SlotHolders) <= MaxConcurrent
    /\ Cardinality(Executing) <= MaxConcurrent
    /\ semaphore = Cardinality(SlotHolders)

\* Every slot is taken by an Execute call while another job waits for one.
C1_Witness ==
    /\ Cardinality(Executing) = MaxConcurrent
    /\ \E j \in IDs : pc[j] = "acquire"

\* The status changes the job lifecycle allows.
ValidTransitions ==
    { << JobStatusPending, JobStatusRunning >>,
      << JobStatusRunning, JobStatusCompleted >>,
      << JobStatusRunning, JobStatusFailed >>,
      << JobStatusPending, JobStatusCancelled >>,
      << JobStatusRunning, JobStatusCancelled >> }

\* C2: every change of a job's status is pending->running, running->completed,
\* running->failed, pending->cancelled or running->cancelled, so a terminal
\* status never changes again.
C2_StatusTransitions ==
    [][ \A j \in Created :
          job'[j].Status # job[j].Status
              => << job[j].Status, job'[j].Status >> \in ValidTransitions ]_vars

\* CancelJob(j) has returned nil.
CancelReturnedOK(j) == cancelOK[j] # "no" /\ cpc[j] = "idle"

\* C3: once CancelJob(id) has returned success, the job's status is cancelled
\* in every later state, whatever Execute returns afterwards.
C3_CancelWins ==
    \A j \in IDs : CancelReturnedOK(j) => job[j].Status = JobStatusCancelled

\* C4: once a job's completedAt is set, no later step writes it again.
C4_CompletedAtWrittenOnce ==
    [][ \A j \in Created :
          job[j].CompletedAt # Nil => job'[j].CompletedAt = job[j].CompletedAt ]_vars

\* C5: for every job, completedAt is set if and only if the status is
\* completed, failed or cancelled.
C5_CompletedAtIffTerminal ==
    \A j \in Created : (job[j].CompletedAt # Nil) <=> IsComplete(job[j])

\* One job has ended with its completedAt set while another runs without one.
C5_Witness ==
    \E j, k \in Created :
        /\ IsComplete(job[j]) /\ job[j].CompletedAt # Nil
        /\ job[k].Status = JobStatusRunning /\ job[k].CompletedAt = Nil

\* C6: a job that CancelJob cancelled while it was pending never has Execute
\* invoked for it and stays cancelled, also once its task has a slot.
C6_PendingCancelSkipsExecute ==
    \A j \in IDs :
        cancelOK[j] = JobStatusPending
            => j \notin executed /\ job[j].Status = JobStatusCancelled

\* A job cancelled while pending whose task took a slot afterwards and has
\* returned, with no Shutdown to make it give up the wait.
C6_Witness ==
    \E j \in IDs :
        /\ cancelOK[j] = JobStatusPending
        /\ CancelReturnedOK(j)
        /\ pc[j] = "done"
        /\ ~ctxDone

\* C7: when CancelJob(id) has succeeded on a running job, the cancel function
\* of the job's execution context has been invoked, so that the Execute call
\* in flight observes the cancellation.
C7_CancelReachesExecute ==
    \A j \in IDs :
        cancelOK[j] = JobStatusRunning /\ CancelReturnedOK(j) /\ pc[j] = "execute"
            => j \in cancelled

\* C8: CancelJob(id) on a job that is already completed, failed or cancelled
\* returns the already-complete error and changes neither the job, the
\* registry nor the webhook sends.
C8_CancelTerminalIsNoOp ==
    [][ \A id \in jobs :
          IsComplete(job[id]) /\ CancelJobLocked(id)
              => /\ CancelJobResult(id) = "already_completed"
                 /\ UNCHANGED << job, jobs, running, cancelled, sends, cpc >> ]_vars

\* A job with webhook sends and a terminal status is in the table, where a
\* CancelJob call finds it.
C8_Witness ==
    \E id \in jobs :
        /\ IsComplete(job[id])
        /\ \E u \in sends : u.JobID = id

\* Both calls report not-found for every id that is not in the table.
UnknownIdsNotFound ==
    \A id \in IDs \ jobs :
        CancelJobResult(id) = "not_found" /\ GetJobResult(id) = "not_found"

\* C9: CancelJob and GetJob on an id that is not in the job table return the
\* not-found error and change neither the table, the registry nor the
\* semaphore.
C9_UnknownIdNotFound ==
    [][ /\ UnknownIdsNotFound
        /\ UnknownIdsNotFound'
        /\ \A id \in IDs \ jobs :
              CancelJobLocked(id) \/ GetJob(id)
                  => UNCHANGED << jobs, job, running, semaphore >> ]_vars

\* An id that has left the table while its job is still registered and
\* holds a slot.
C9_Witness ==
    \E id \in Created \ jobs : id \in running /\ semaphore > 0

\* Every job the Manager holds has a command of the allow-list, and CreateJob
\* answers ok exactly for the commands of the allow-list.
OnlyAllowedJobs ==
    /\ \A j \in Created : job[j].Command \in allowedCommands
    /\ \A command \in Commands :
          CreateJobResult(command) = "ok" <=> command \in allowedCommands

\* C10: a job record and its execution task come into being together, only
\* through CreateJob and only for a command of the allow-list; CreateJob with
\* any other command returns an error and changes nothing.
C10_OnlyAllowedCommands ==
    [][ /\ OnlyAllowedJobs
        /\ OnlyAllowedJobs'
        /\ \A j \in IDs :
              (j \in jobs' \ jobs \/ (pc[j] = "none" /\ pc'[j] # "none"))
                  => /\ j \in jobs' \ jobs
                     /\ pc[j] = "none" /\ pc'[j] = "acquire"
                     /\ \E command \in Commands \cap allowedCommands,
                           url \in WebhookURLs, ttl \in TTLs :
                            CreateJob(command, url, ttl)
        /\ \A command \in Commands \ allowedCommands :
              (\E url \in WebhookURLs, ttl \in TTLs : CreateJob(command, url, ttl))
                  => UNCHANGED << pc, jobs, job, semaphore >> ]_vars

\* A job is in the table with its task started, and there is still an id
\* left for another request.
C10_Witness ==
    /\ \E j \in jobs : pc[j] = "acquire"
    /\ Created # IDs

\* The TTL of job id has passed.
TTLPassed(id) == job[id].CreatedAt + job[id].TTL < now

\* C11: after every eviction sweep no job whose createdAt + ttl is earlier
\* than the sweep's time is left in the table, and GetJob on it returns
\* not-found.
C11_SweepRemovesExpired ==
    [][ cleanupExpiredJobs
          => \A id \in jobs :
                TTLPassed(id) => id \notin jobs' /\ GetJobResult(id)' = "not_found" ]_vars

\* A table that never exceeded the cap has lost a job whose TTL has passed.
C11_Witness ==
    /\ Cardinality(Created) <= MaxHistorySize
    /\ \E id \in Created \ jobs : TTLPassed(id) /\ GetJobResult(id) = "not_found"

\* C12: after every eviction sweep the table holds at most max_history_size
\* jobs, and no job that survives was created before a job the sweep removed
\* for the cap.
C12_SweepKeepsCapOldestFirst ==
    [][ cleanupExpiredJobs
          => /\ Cardinality(jobs') <= MaxHistorySize
             /\ \A e \in jobs \ jobs', k \in jobs' :
                   ~TTLPassed(e) => job[e].CreatedAt <= job[k].CreatedAt ]_vars

\* A job within its TTL has left the table while a job created later stays.
C12_Witness ==
    \E e \in Created \ jobs, k \in jobs :
        ~TTLPassed(e) /\ job[e].CreatedAt < job[k].CreatedAt

\* C13: a sweep removes as many jobs within their TTL as the table, once the
\* expired jobs are gone, has over the cap, and none when it is within the cap.
C13_SweepRemovesOnlyExcess ==
    [][ cleanupExpiredJobs
          => LET live == { id \in jobs : ~TTLPassed(id) }
             IN  Cardinality(live \ jobs') =
                     IF Cardinality(live) > MaxHistorySize
                     THEN Cardinality(live) - MaxHistorySize ELSE 0 ]_vars

\* C14: an eviction sweep never removes a job whose status is running.
C14_SweepKeepsRunning ==
    [][ cleanupExpiredJobs
          => \A id \in jobs : job[id].Status = JobStatusRunning => id \in jobs' ]_vars

\* C15: an entry leaves the job table only in a step of the eviction sweep;
\* CreateJob, executeJob, CancelJob and Shutdown remove none.
C15_OnlySweepRemoves ==
    [][ jobs \ jobs' # {} => cleanupExpiredJobs ]_vars

\* Shutdown has returned, and the table still holds a job that completed and a
\* job that was cancelled, whose tasks have ended.
C15_Witness ==
    /\ sdPc = "done"
    /\ \E j, k \in jobs :
          /\ pc[j] = "done" /\ job[j].Status = JobStatusCompleted
          /\ pc[k] = "done" /\ job[k].Status = JobStatusCancelled

\* C16: when Execute has panicked for a job, the process lives on and the job
\* is failed, with the panic's message as its error.
C16_PanicRecovered ==
    \A j \in IDs :
        pc[j] = "panic"
            => ProcessAlive /\ job[j].Status = JobStatusFailed /\ job[j].Error # ""

\* C17: when executeJob commits what Execute returned for a job that is still
\* running, the job becomes failed for an error or a non-zero exit code (with
\* that exit code, or 1 without a result) and completed with exit code 0
\* otherwise; CreateJob returns a pending job before any slot or execution.
C17_ExecuteOutcome ==
    [][ /\ \A j \in IDs :
              Commit(j) /\ job[j].Status = JobStatusRunning
                  => LET r == res[j][1]
                     IN  IF r.err # Nil
                         THEN /\ job'[j].Status = JobStatusFailed
                              /\ job'[j].ExitCode =
                                     IF r.result = Nil THEN Ptr(1)
                                     ELSE Ptr(r.result[1].ExitCode)
                         ELSE IF r.result # Nil /\ r.result[1].ExitCode # 0
                         THEN /\ job'[j].Status = JobStatusFailed
                              /\ job'[j].ExitCode = Ptr(r.result[1].ExitCode)
                         ELSE /\ job'[j].Status = JobStatusCompleted
                              /\ job'[j].ExitCode = Ptr(0)
        /\ \A j \in jobs' \ jobs :
              /\ job'[j].Status = JobStatusPending
              /\ pc'[j] = "acquire"
              /\ j \notin executed'
              /\ semaphore' = semaphore ]_vars

\* One job has failed on a non-zero exit code alone and another has
\* completed, neither of them cancelled.
C17_Witness ==
    \E j, k \in Created :
        /\ job[j].Status = JobStatusFailed /\ job[j].ExitCode = Ptr(1)
        /\ job[j].Error = "" /\ job[j].Output = "bad"
        /\ job[k].Status = JobStatusCompleted /\ job[k].ExitCode = Ptr(0)
        /\ cancelOK[j] = "no" /\ cancelOK[k] = "no" /\ ~ctxDone

\* C18: once Shutdown has returned, every job that was running when Shutdown
\* was called has had its cancel function invoked and is cancelled.
C18_ShutdownCancelsRunning ==
    sdPc = "done"
        => \A j \in IDs :
              sdSeen[j] = "running"
                  => j \in cancelled /\ job[j].Status = JobStatusCancelled

\* C19: a job that waited for a slot, or was yet to be created, when Shutdown
\* was called never becomes running and never has Execute invoked for it.
C19_NoStartAfterShutdown ==
    \A j \in IDs :
        sdSeen[j] = "waiting"
            => job[j].Status # JobStatusRunning /\ j \notin executed

\* C20: one Send call makes at most max_retries + 1 delivery attempts, every
\* attempt but the last has failed, and a call that is about to make, or
\* waits to make, another attempt has only failed ones behind it.
C20_SendAttempts ==
    \A s \in SendIDs :
        LET d == delivery[s]
        IN  /\ Len(d.log) <= MaxRetries + 1
            /\ \A i \in 1 .. Len(d.log) - 1 : d.log[i] # "2xx"
            /\ d.pc \in { "attempt", "sleep" }
                  => /\ \A i \in 1 .. Len(d.log) : d.log[i] # "2xx"
                     /\ Len(d.log) <= MaxRetries

\* One Send call has given up after max_retries + 1 failed attempts and
\* another has stopped at a success that followed a failure.
C20_Witness ==
    \E s, t \in SendIDs :
        /\ delivery[s].pc = "done" /\ Len(delivery[s].log) = MaxRetries + 1
        /\ delivery[s].log[MaxRetries + 1] # "2xx"
        /\ delivery[t].pc = "done" /\ Len(delivery[t].log) > 1
        /\ delivery[t].log[Len(delivery[t].log)] = "2xx"

\* C26: with a secret configured, VerifySignature accepts the signature
\* generateSignature made for a payload and a timestamp when it is given the
\* same payload and timestamp, and rejects it for any other payload or any
\* other timestamp.
C26_SignatureRoundTrip ==
    (webhooks.Secret # "" /\ signed # Nil /\ signed.verified # Nil) =>
        (signed.verified[1].ok <=>
            /\ signed.verified[1].payload = signed.payload
            /\ signed.verified[1].timestamp = signed.timestamp)

\* With a secret, a signature made for ("0a", 1) has been refused for
\* ("a", 10), whose timestamp and payload read the same when run together.
C26_Witness ==
    /\ webhooks.Secret # ""
    /\ signed # Nil
    /\ signed.payload = "0a" /\ signed.timestamp = 1
    /\ signed.verified # Nil
    /\ signed.verified[1].payload = "a" /\ signed.verified[1].timestamp = 10
    /\ ~signed.verified[1].ok

\* The requests of the Send calls, by call.
RequestsOf(s) == { delivery[s].reqs[i] : i \in 1 .. Len(delivery[s].reqs) }

\* C27: every request of a delivery attempt has the X-Webhook-Timestamp
\* header, and has the X-Webhook-Signature header exactly when the secret
\* is not empty; each attempt that got as far as a request made one.
C27_TimestampAndSignatureHeaders ==
    \A s \in SendIDs :
        /\ \A r \in RequestsOf(s) :
              /\ "X-Webhook-Timestamp" \in DOMAIN r.header
              /\ \E t \in 0 .. now : r.header["X-Webhook-Timestamp"] = Itoa(t)
              /\ ("X-Webhook-Signature" \in DOMAIN r.header) <=> (webhooks.Secret # "")
              /\ "X-Webhook-Signature" \in DOMAIN r.header =>
                    \E t \in 0 .. now :
                        /\ r.header["X-Webhook-Timestamp"] = Itoa(t)
                        /\ VerifySignature(r.body, t, r.header["X-Webhook-Signature"])
        /\ Len(delivery[s].reqs) =
              Cardinality({ i \in 1 .. Len(delivery[s].log) : delivery[s].log[i] # "request" })

\* Without a secret a delivery has made a request with no signature header.
C27_Witness ==
    /\ webhooks.Secret = ""
    /\ \E s \in SendIDs : \E r \in RequestsOf(s) :
          DOMAIN r.header = PlainHeaderNames

\* With a secret a delivery has made two requests, both signed.
C27_WitnessSigned ==
    /\ webhooks.Secret # ""
    /\ \E s \in SendIDs :
          /\ Len(delivery[s].reqs) = 2
          /\ \A r \in RequestsOf(s) : "X-Webhook-Signature" \in DOMAIN r.header

\* The calls of Send made for job j from the places in sites.
SendsFor(j, sites) == { u \in sends : u.JobID = j /\ u.site \in sites }

\* C23: for a job with a WebhookURL, Send is called at most once for the
\* start and at most once for the terminal transition: at most twice in
\* all, and never twice for a terminal outcome.
C23_AtMostOneSendPerTransition ==
    \A j \in IDs :
        /\ Cardinality(SendsFor(j, { "start" })) <= 1
        /\ Cardinality(SendsFor(j, { "cancel", "final" })) <= 1
        /\ Cardinality(SendsFor(j, { "start", "cancel", "final" })) <= 2

\* The operation that has just changed the status of job j is at the point
\* where it calls Send for it.
SendPending(j) ==
    \/ pc[j] \in { "webhookStart", "webhookFinal" }
    \/ cpc[j] = "webhook"
    \/ cpc[j] = "registry"

\* C24: for a job with a WebhookURL, each step that changes the job's status
\* leaves the operation that took it on its way to a call of Send for the
\* job, whether the operation is executeJob, CancelJob or Shutdown.
C24_EveryTransitionSends ==
    [][\A j \in IDs :
          (job[j].WebhookURL # "" /\ job'[j].Status # job[j].Status) =>
              SendPending(j)']_vars

\* A task is about to read the fields of job j for a webhook payload,
\* holding no lock.
ReadsUnlocked(j) ==
    \/ pc[j] = "webhookStart"
    \/ pc[j] = "webhookFinal" /\ job[j].WebhookURL # ""
    \/ cpc[j] = "webhook"

\* A task other than executeJob(j) can write the fields of job j now.
WritesFromOutside(j) ==
    \/ CancelJobResult(j) = "ok"
    \/ sdPc = "loop" /\ j \in sdTodo /\ j \in jobs

\* executeJob(j) can write the fields of job j now.
WritesFromExecuteJob(j) ==
    \/ pc[j] = "markRunning" /\ job[j].Status # JobStatusCancelled
    \/ pc[j] = "commit"

\* C29: no task reads a job's mutable fields without the jobs lock at a
\* moment when another task can write them: the reads of executeJob's
\* webhook blocks never meet a write of CancelJob or Shutdown, and the read
\* of CancelJob's webhook block never meets a write of executeJob or
\* Shutdown.
C29_ReadsUnderLock ==
    \A j \in IDs :
        /\ ~(pc[j] \in { "webhookStart", "webhookFinal" } /\ ReadsUnlocked(j)
             /\ WritesFromOutside(j))
        /\ ~(cpc[j] = "webhook"
             /\ (WritesFromExecuteJob(j) \/ (sdPc = "loop" /\ j \in sdTodo /\ j \in jobs)))

\* The result fields of a job are as CreateJob left them.
ResultUnset(j) == j.ExitCode = Nil /\ j.Output = "" /\ j.Error = ""

\* The result fields of a pending or running job are unset.
UnsetBeforeTerminal ==
    \A j \in IDs :
        job[j].Status \in { JobStatusPending, JobStatusRunning } => ResultUnset(job[j])

\* C30: in every state a pending or running job has no ExitCode, an empty
\* Output and an empty Error, and a step changes one of these fields only
\* in the update that makes the job terminal.
C30_ResultOnlyWhenTerminal ==
    [][/\ UnsetBeforeTerminal
       /\ UnsetBeforeTerminal'
       /\ \A j \in IDs :
             << job'[j].ExitCode, job'[j].Output, job'[j].Error >>
                 # << job[j].ExitCode, job[j].Output, job[j].Error >> =>
                 /\ pc[j] = "commit"
                 /\ job[j].Status \notin { JobStatusCompleted, JobStatusFailed }
                 /\ job'[j].Status \in { JobStatusCompleted, JobStatusFailed }]_vars

\* One job has failed with its result fields set while another is running
\* with none.
C30_Witness ==
    \E j, k \in IDs :
        /\ job[j].Status = JobStatusFailed
        /\ job[j].ExitCode = Ptr(2) /\ job[j].Output # "" /\ job[j].Error # ""
        /\ job[k].Status = JobStatusRunning /\ pc[k] = "execute"
        /\ ResultUnset(job[k])

\* The elements of a sequence.
Range(s) == { s[i] : i \in 1 .. Len(s) }

\* The jobs in the table that ListJobs' filter lets through.
Matching(status) == { id \in jobs : status = "" \/ job[id].Status = status }

\* C28: ListJobs(status, limit) returns only jobs in the table, each of them
\* once; with a status every job returned has that status; with limit > 0
\* it returns at most limit jobs, and with limit <= 0 every matching job.
C28_ListJobs ==
    \A status \in StatusFilters, limit \in Limits, order \in RangeOrders :
        LET found == ListJobsResult(order, status, limit) IN
        /\ Range(found) \subseteq jobs
        /\ Cardinality(Range(found)) = Len(found)
        /\ status # "" => \A id \in Range(found) : job[id].Status = status
        /\ limit > 0 => Len(found) <= limit
        /\ limit <= 0 => Range(found) = Matching(status)

\* With a completed and a cancelled job in the table, the filter leaves one
\* of the two, a limit of 1 cuts the list of both short, and which job the
\* cut list holds depends on the order of the range.
C28_Witness ==
    /\ Cardinality(jobs) = 2
    /\ \E a, b \in jobs :
          /\ job[a].Status = JobStatusCompleted
          /\ job[b].Status = JobStatusCancelled
          /\ \A order \in RangeOrders :
                /\ ListJobsResult(order, JobStatusCancelled, 0) = << b >>
                /\ Len(ListJobsResult(order, "", 0)) = 2
                /\ Len(ListJobsResult(order, "", 1)) = 1
          /\ \E order \in RangeOrders : ListJobsResult(order, "", 1) = << a >>
          /\ \E order \in RangeOrders : ListJobsResult(order, "", 1) = << b >>

\* The attempts of the Send call s have all failed and none is left.
Exhausted(s) ==
    /\ delivery[s].pc = "done"
    /\ Len(delivery[s].log) = MaxRetries + 1
    /\ \A i \in 1 .. Len(delivery[s].log) : delivery[s].log[i] # "2xx"

\* C21: no step of webhook delivery (the call of Send, an attempt that
\* succeeds or fails, the sleep between attempts, the end of the retries)
\* changes a field of any job, the job table, the registry of cancel
\* functions or the semaphore.
C21_DeliveryLeavesJobsAlone ==
    [][delivery' # delivery =>
          UNCHANGED << job, jobs, running, cancelled, semaphore >>]_vars

\* The delivery of a completed job's update has failed on every attempt,
\* and the job is still completed.
C21_Witness ==
    \E s \in SendIDs :
        /\ Exhausted(s)
        /\ delivery[s].update.Status = JobStatusCompleted
        /\ job[delivery[s].update.JobID].Status = JobStatusCompleted
        /\ job[delivery[s].update.JobID].Error = ""

\* C22: executeJob's terminal update and its return, which frees the slot,
\* and the return of CancelJob can be taken whatever state the deliveries
\* are in: none of them waits for a call of Send to make progress.
C22_NoWaitForDelivery ==
    \A j \in IDs :
        /\ pc[j] = "webhookStart" => ENABLED WebhookStart(j)
        /\ pc[j] = "commit" => ENABLED Commit(j)
        /\ pc[j] = "webhookFinal" => ENABLED WebhookFinal(j)
        /\ cpc[j] = "webhook" => ENABLED CancelJobWebhook(j)

\* A job with a webhook is completed and has given its slot back, a
\* CancelJob for the other job has returned, and of their updates one has
\* failed on every attempt and the others have not been sent at all.
C22_Witness ==
    \E j, k \in IDs :
        /\ j # k
        /\ job[j].WebhookURL # "" /\ job[j].Status = JobStatusCompleted
        /\ pc[j] = "done" /\ semaphore = 0
        /\ cancelOK[k] # "no" /\ cpc[k] = "idle" /\ job[k].WebhookURL # ""
        /\ \E s \in SendIDs : Exhausted(s) /\ delivery[s].update.JobID = j
        /\ \E u \in sends : \A s \in SendIDs : delivery[s].update # u

\* C25: no call of Send is made for a job without a WebhookURL, and a call
\* of Send makes a delivery attempt only with webhooks enabled and only to
\* the WebhookURL of the job the update is about.
C25_NoDeliveryWithoutURLOrDisabled ==
    /\ \A u \in sends : job[u.JobID].WebhookURL # ""
    /\ \A s \in SendIDs :
          /\ delivery[s].pc # "idle" =>
                /\ delivery[s].update \in sends
                /\ delivery[s].url = job[delivery[s].update.JobID].WebhookURL
                /\ delivery[s].url # ""
          /\ ~webhooks.Enabled =>
                /\ delivery[s].log = << >> /\ delivery[s].reqs = << >>
                /\ delivery[s].pc \in { "idle", "done" }

\* With webhooks disabled a job with a WebhookURL and a job without one have
\* both completed; Send was called for the first and made no attempt, and
\* was not called for the second.
C25_Witness ==
    /\ ~webhooks.Enabled
    /\ \E j, k \in IDs :
          /\ job[j].WebhookURL # "" /\ job[j].Status = JobStatusCompleted
          /\ job[k].WebhookURL = "" /\ job[k].Status = JobStatusCompleted
          /\ pc[k] = "done"
          /\ \E s \in SendIDs :
                /\ delivery[s].pc = "done" /\ delivery[s].update.JobID = j
                /\ delivery[s].log = << >>
          /\ \A u \in sends : u.JobID # k

\* The jobs whose status is running.
RunningJobs == { j \in IDs : job[j].Status = JobStatusRunning }

\* C33: a job is running only while its executeJob task holds a slot, a job
\* whose task has not acquired a slot is pending or cancelled, and so the
\* number of running jobs never exceeds max_concurrent.
C33_RunningOnlyWithSlot ==
    /\ RunningJobs \subseteq SlotHolders
    /\ \A j \in IDs :
          pc[j] \in { "acquire", "markRunning" } =>
              job[j].Status \in { JobStatusPending, JobStatusCancelled }
    /\ Cardinality(RunningJobs) <= MaxConcurrent

\* One job is running with the only slot while another, created after it,
\* is pending and waits for the slot.
C33_Witness ==
    \E j, k \in IDs :
        /\ job[j].Status = JobStatusRunning /\ pc[j] = "execute"
        /\ job[k].Status = JobStatusPending /\ pc[k] = "acquire"
        /\ semaphore = MaxConcurrent

\* The executeJob task of job j has ended: it returned, or it panicked.
TaskEnded(j) == pc[j] \in { "done", "panic" }

\* The tasks that give a slot back in the step.
Releasing == { j \in IDs : j \in SlotHolders /\ TaskEnded(j)' }

\* C34: every step in which an executeJob task that holds a slot ends (on
\* finding the job cancelled, after Execute's success or error, by a panic)
\* takes exactly one slot off the semaphore, no other step takes one off,
\* and the semaphore holds as many slots as there are tasks between
\* acquisition and end: none once every task has ended.
C34_SlotReleasedOnce ==
    [][/\ semaphore' = semaphore - Cardinality(Releasing)
                       + Cardinality({ j \in IDs : pc[j] = "acquire" /\ j \in SlotHolders' })
       /\ Cardinality(Releasing) <= 1
       /\ semaphore' = Cardinality(SlotHolders')
       /\ (\A j \in IDs : pc'[j] = "none" \/ TaskEnded(j)') => semaphore' = 0]_vars

\* A task has ended by a panic and another on finding its job cancelled,
\* and no slot is taken.
C34_Witness ==
    \E j, k \in IDs :
        /\ pc[j] = "panic"
        /\ pc[k] = "done" /\ job[k].Status = JobStatusCancelled /\ job[k].StartedAt = Nil
        /\ k \notin executed /\ ~ctxDone
        /\ semaphore = 0

\* C36: the update of a start webhook carries the status running, the update
\* of executeJob's final webhook the status executeJob has just written
\* (completed or failed), and the update of CancelJob's webhook cancelled.
C36_WebhookCarriesOwnStatus ==
    \A u \in sends :
        /\ u.site = "start" => u.Status = JobStatusRunning
        /\ u.site = "final" => u.Status \in { JobStatusCompleted, JobStatusFailed }
        /\ u.site = "cancel" => u.Status = JobStatusCancelled

\* C37: the registry of cancel functions has at most max_concurrent
\* entries, each for a job whose executeJob task holds a slot, and none for
\* a job whose task has ended.
C37_RegistryNeverLeaks ==
    /\ Cardinality(running) <= MaxConcurrent
    /\ running \subseteq SlotHolders
    /\ \A j \in IDs : TaskEnded(j) => j \notin running

\* A job's task has ended and its entry is gone, while the entry of the job
\* that runs now is in the registry and Shutdown is calling the cancel
\* functions.
C37_Witness ==
    \E j, k \in IDs :
        /\ pc[j] = "done" /\ j \in executed /\ j \notin running
        /\ pc[k] = "execute" /\ running = { k }
        /\ sdPc = "loop"

\* The attempts of Send call s that have failed.
Failures(s) == { i \in 1 .. Len(delivery[s].log) : delivery[s].log[i] # "2xx" }

\* C35: the k-th wait of a Send call lasts retry_backoff * k; there is one
\* wait after each failed attempt but the last one allowed, so at most
\* max_retries, and none after a success or after the final failure.
C35_LinearBackoff ==
    \A s \in SendIDs :
        LET d == delivery[s] IN
        /\ \A k \in 1 .. Len(d.slept) : d.slept[k] = RetryBackoff * k
        /\ Len(d.slept) <= MaxRetries
        /\ d.pc = "attempt" => Len(d.slept) = Len(d.log) /\ Failures(s) = 1 .. Len(d.log)
        /\ d.pc = "sleep" => Len(d.slept) = Len(d.log) - 1 /\ Len(d.log) <= MaxRetries
        /\ (d.pc = "done" /\ d.log # << >>) => Len(d.slept) = Len(d.log) - 1

\* A Send call has failed on every attempt: it has waited retry_backoff,
\* then twice that, and not after the last failure.
C35_Witness ==
    \E s \in SendIDs :
        /\ Exhausted(s)
        /\ Len(delivery[s].slept) = MaxRetries
        /\ delivery[s].slept[1] = RetryBackoff
        /\ delivery[s].slept[MaxRetries] = RetryBackoff * MaxRetries
        /\ MaxRetries > 1

\* The jobs of the API server whose executePlandexFunction call is in
\* progress.
ServerExecuting == { j \in IDs : server.pc[j] = "exec" }

\* C31: in the app/cli API server no more than maxConcurrent jobs are
\* executed at the same time.
C31_ServerConcurrencyBound == Cardinality(ServerExecuting) <= MaxConcurrent

\* C32: in the app/cli API server no step changes a status that is
\* completed, failed or cancelled.
C32_ServerTerminalIsFinal ==
    [][\A j \in IDs :
          server.job[j].Status \in { JobStatusCompleted, JobStatusFailed, JobStatusCancelled }
              => server'.job[j].Status = server.job[j].Status]_vars

\* Task t is in a lock call that cannot return now.
Waits(t) == LocksLeft(t) /\ ~CanReturn(t)

\* Task u holds the mutex that task t waits for.
Blocks(u, t) ==
    /\ Waits(t)
    /\ HoldsLock(u, NextCall(t)[2]) \/ HoldsRLock(u, NextCall(t)[2])

\* The calls task u makes from now up to its release of mutex.
RECURSIVE CallsUntilRelease(_, _, _)
CallsUntilRelease(u, i, mutex) ==
    IF i > Len(LockCalls(u)) THEN { }
    ELSE IF LockCalls(u)[i] \in { << "Unlock", mutex >>, << "RUnlock", mutex >> } THEN { }
    ELSE { LockCalls(u)[i] } \cup CallsUntilRelease(u, i + 1, mutex)

\* C39: whenever a task waits for jobsMutex or runningMutex, each holder of
\* that mutex reaches its release without calling for a mutex the waiter
\* holds, the holder is never itself blocked by the waiter, and so while a
\* task has calls left some task can go on.
C39_NoLockDeadlock ==
    /\ \A t, u \in Tasks :
          Blocks(u, t) =>
              /\ ~Blocks(t, u)
              /\ \A c \in CallsUntilRelease(u, locks[u], NextCall(t)[2]) :
                    c[1] \in { "Lock", "RLock" } =>
                        ~HoldsLock(t, c[2]) /\ ~HoldsRLock(t, c[2])
    /\ (\E t \in Tasks : LocksLeft(t)) => \E t \in Tasks : CanReturn(t)

\* Shutdown holds runningMutex and waits for jobsMutex, which CancelJob
\* holds; an executeJob goroutine waits for runningMutex.
C39_Witness ==
    /\ HoldsLock("Shutdown", "runningMutex") /\ Waits("Shutdown")
    /\ Blocks("CancelJob", "Shutdown")
    /\ Blocks("Shutdown", "executeJob1")

\* C38: without Shutdown, with Execute calls that return and a fair
\* scheduler, every job CreateJob has made comes to be completed, failed or
\* cancelled, evicted or not.
C38_EveryJobEnds ==
    \A j \in IDs :
        (pc[j] # "none") ~>
            (job[j].Status \in { JobStatusCompleted, JobStatusFailed, JobStatusCancelled })

\* A job that had to wait for the slot has completed after the sweep
\* removed its record, and the job before it has failed.
C38_Witness ==
    \E j, k \in IDs :
        /\ j < k
        /\ job[j].Status = JobStatusFailed /\ pc[j] = "done"
        /\ job[k].Status = JobStatusCompleted /\ pc[k] = "done"
        /\ k \notin jobs

==========================================================================
